---- MODULE Spec2Model ----
(***************************************************************************)
(* Model of pkg/kubelet/kubeletconfig/controller.go: the Controller that   *)
(* resolves the Kubelet's configuration at start-up (Bootstrap, with its   *)
(* fallback local -> assigned -> last-known-good) and launches the sync    *)
(* loops (StartSync).                                                       *)
(***************************************************************************)
EXTENDS Integers, Sequences, FiniteSets, TLC

\* ---------------------------------------------------------------- bounds
NumUIDs == 2
MaxTrial == 1
MaxTime == 2
MaxRaises == 3

\* ------------------------------------------------------------- data model
Nil == "nil"

AllUIDs == <<"u1", "u2", "u3", "u4">>
UIDs == {AllUIDs[i] : i \in 1..NumUIDs}

\* checkpoint.RemoteConfigSource, or nil: "use the local config"
Sources == UIDs \cup {Nil}

\* kubeletconfig.KubeletConfiguration: which source it came from, whether
\* validation.ValidateKubeletConfiguration accepts it, and ConfigTrialDuration
ConfigsOf(s) == [src : {s}, valid : BOOLEAN, trial : 0..MaxTrial]

NoConfig == [src |-> Nil, valid |-> FALSE, trial |-> 0]

\* validation.ValidateKubeletConfiguration(kc) == nil
ValidateKubeletConfiguration(kc) == kc.valid

\* configfiles.Loader: nil when no kubeletConfigFile was given; otherwise
\* Load() fails or yields the file's configuration
NoLoader == [present |-> FALSE, loadErr |-> FALSE, kc |-> NoConfig]

Loaders ==
    {NoLoader}
    \cup {[present |-> TRUE, loadErr |-> TRUE, kc |-> NoConfig]}
    \cup {[present |-> TRUE, loadErr |-> FALSE, kc |-> c] : c \in ConfigsOf("file")}

\* A checkpoint blob of the store: Load(uid) fails, or Parse() fails, or it
\* parses into a configuration
CheckpointsOf(u) ==
    {[loadable |-> FALSE, parsable |-> FALSE, config |-> NoConfig],
     [loadable |-> TRUE, parsable |-> FALSE, config |-> NoConfig]}
    \cup {[loadable |-> TRUE, parsable |-> TRUE, config |-> c] : c \in ConfigsOf(u)}

\* status reasons and messages: a constant is a 1-tuple, a format applied to
\* an argument (fmt.Sprintf) is the pair <<format, argument>>
NotDynamicLocalReason == <<"NotDynamicLocalReason">>
NotDynamicLocalMessage == <<"NotDynamicLocalMessage">>
CurLocalOkayReason == <<"CurLocalOkayReason">>
CurRemoteOkayReason == <<"CurRemoteOkayReason">>
CurLocalMessage == <<"CurLocalMessage">>
LkgLocalMessage == <<"LkgLocalMessage">>
Sprintf(format, arg) == <<format, arg>>

ConditionTrue == "True"
ConditionFalse == "False"
ConditionUnknown == "Unknown"

\* status.NewConfigOKCondition(): nothing set yet
NewConfigOKCondition == [message |-> <<>>, reason |-> <<>>, status |-> ConditionUnknown]

VARIABLES
    dynamicConfig,        \* Controller.dynamicConfig
    defaultConfig,        \* Controller.defaultConfig
    fileLoader,           \* Controller.fileLoader
    pendingConfigSource,  \* Controller.pendingConfigSource: values buffered in the channel
    configOK,             \* Controller.configOK: the condition last Set
    informer,             \* Controller.informer
    checkpointStore,      \* Controller.checkpointStore: pointers, timestamp, blobs
    pc,                   \* position of the Bootstrap call
    local,                \* Bootstrap's local
    assigned,             \* Bootstrap's assigned
    curSource,            \* Bootstrap's curSource
    reason,               \* Bootstrap's reason
    err,                  \* Bootstrap's err of loadAssignedConfig
    trial,                \* Bootstrap's trial
    lkg,                  \* Bootstrap's lkg
    lkgSource,            \* Bootstrap's lkgSource
    ret,                  \* what Bootstrap returned
    now,                  \* time.Now() read by inTrial
    validated,            \* configurations the validator accepted in this call
    calls,                \* checkpoint store operations performed, in order
    store0,               \* the checkpoint store as Bootstrap found it
    loops,                \* goroutines launched by StartSync
    loopPc,               \* position of each loop
    raises,               \* raises of the pending signal since the last consume
    dropped,              \* of those raises, the ones dropped because the channel was full
    syncCall,             \* the StartSync call: whether made, and its arguments
    nodeCondition,        \* the ConfigOK condition last pushed to the Node object
    lastPublish,          \* outcome of the last ConfigOK sync
    lastSync,             \* what the current syncConfigSource iteration has done
    process               \* the Kubelet process: panicked loop, handlers called, exited

vars == <<dynamicConfig, defaultConfig, fileLoader, pendingConfigSource, configOK,
          informer, checkpointStore, pc, local, assigned, curSource, reason, err,
          trial, lkg, lkgSource, ret, now, validated, calls, store0, loops, loopPc, raises,
          dropped, syncCall, nodeCondition, lastPublish, lastSync, process>>

ctlVars == <<dynamicConfig, defaultConfig, fileLoader>>
syncVars == <<pendingConfigSource, informer, loops, loopPc, raises, dropped, syncCall,
              nodeCondition, lastPublish, lastSync, process>>
bootVars == <<pc, local, assigned, curSource, reason, err, trial, lkg, lkgSource, ret,
              now, validated, calls, store0>>

\* errors are tuples like the reasons; NoErr is Go's nil error
NoErr == <<>>
Errorf(format, arg) == <<format, arg>>

NoReturn == [config |-> NoConfig, err |-> NoErr, returned |-> FALSE]
Return(c, e) == [config |-> c, err |-> e, returned |-> TRUE]

Call(op, ok) == [op |-> op, ok |-> ok]

Condition(message, rsn, status) == [message |-> message, reason |-> rsn, status |-> status]

\* -------------------------------------------------------------- helpers
\* variant of loadLocalConfig: the defaults are validated only when no file is given
loadLocalConfigFileOnly ==
    IF fileLoader.present
    THEN IF fileLoader.loadErr
         THEN [config |-> NoConfig, err |-> <<"file load failed">>, validated |-> {}]
         ELSE IF ~ValidateKubeletConfiguration(fileLoader.kc)
              THEN [config |-> NoConfig, err |-> <<"file failed validation">>,
                    validated |-> {}]
              ELSE [config |-> fileLoader.kc, err |-> NoErr,
                    validated |-> {fileLoader.kc}]
    ELSE IF ~ValidateKubeletConfiguration(defaultConfig)
         THEN [config |-> NoConfig, err |-> <<"defaults failed validation">>,
               validated |-> {}]
         ELSE [config |-> defaultConfig, err |-> NoErr, validated |-> {defaultConfig}]

\* loadLocalConfig: validate the defaults, then load and validate the file
loadLocalConfig ==
    IF ~ValidateKubeletConfiguration(defaultConfig)
    THEN [config |-> NoConfig, err |-> <<"defaults failed validation">>, validated |-> {}]
    ELSE IF fileLoader.present
         THEN IF fileLoader.loadErr
              THEN [config |-> NoConfig, err |-> <<"file load failed">>,
                    validated |-> {defaultConfig}]
              ELSE IF ~ValidateKubeletConfiguration(fileLoader.kc)
                   THEN [config |-> NoConfig, err |-> <<"file failed validation">>,
                         validated |-> {defaultConfig}]
                   ELSE [config |-> fileLoader.kc, err |-> NoErr,
                         validated |-> {defaultConfig, fileLoader.kc}]
         ELSE [config |-> defaultConfig, err |-> NoErr, validated |-> {defaultConfig}]

\* variant of assignedLocal: reports the remote success reason
assignedLocalRemoteReason(l, src) ==
    [config |-> l, src |-> src, reason |-> CurRemoteOkayReason,
     err |-> NoErr, validated |-> {},
     calls |-> <<Call("Current", TRUE)>>]

\* loadAssignedConfig, lines 265-268: a nil source is the signal to use the
\* local config
assignedLocal(l, src) ==
    [config |-> l, src |-> src, reason |-> CurLocalOkayReason,
     err |-> NoErr, validated |-> {},
     calls |-> <<Call("Current", TRUE)>>]

\* variant of assignedFromCheckpoint: a parse failure is reported with the
\* reason of a load failure
assignedFromCheckpointWrongStage(src) ==
    LET cp == checkpointStore.checkpoints[src]
    IN  IF ~cp.loadable \/ ~cp.parsable
        THEN [config |-> NoConfig, src |-> src,
              reason |-> Sprintf("CurFailLoadReasonFmt", src),
              err |-> <<"Load">>, validated |-> {},
              calls |-> <<Call("Current", TRUE), Call("Load", cp.loadable)>>]
        ELSE IF ~ValidateKubeletConfiguration(cp.config)
        THEN [config |-> NoConfig, src |-> src,
              reason |-> Sprintf("CurFailValidateReasonFmt", src),
              err |-> <<"Validate">>, validated |-> {},
              calls |-> <<Call("Current", TRUE), Call("Load", TRUE)>>]
        ELSE [config |-> cp.config, src |-> src, reason |-> CurRemoteOkayReason,
              err |-> NoErr, validated |-> {cp.config},
              calls |-> <<Call("Current", TRUE), Call("Load", TRUE)>>]

\* loadAssignedConfig, lines 269-282: load, parse and validate the checkpoint
\* of the current source
assignedFromCheckpoint(src) ==
    LET cp == checkpointStore.checkpoints[src]
    IN  IF ~cp.loadable
        THEN [config |-> NoConfig, src |-> src,
              reason |-> Sprintf("CurFailLoadReasonFmt", src),
              err |-> <<"Load">>, validated |-> {},
              calls |-> <<Call("Current", TRUE), Call("Load", FALSE)>>]
        ELSE IF ~cp.parsable
        THEN [config |-> NoConfig, src |-> src,
              reason |-> Sprintf("CurFailParseReasonFmt", src),
              err |-> <<"Parse">>, validated |-> {},
              calls |-> <<Call("Current", TRUE), Call("Load", TRUE)>>]
        ELSE IF ~ValidateKubeletConfiguration(cp.config)
        THEN [config |-> NoConfig, src |-> src,
              reason |-> Sprintf("CurFailValidateReasonFmt", src),
              err |-> <<"Validate">>, validated |-> {},
              calls |-> <<Call("Current", TRUE), Call("Load", TRUE)>>]
        ELSE [config |-> cp.config, src |-> src, reason |-> CurRemoteOkayReason,
              err |-> NoErr, validated |-> {cp.config},
              calls |-> <<Call("Current", TRUE), Call("Load", TRUE)>>]

\* loadAssignedConfig(local); curOk: checkpointStore.Current() succeeds
loadAssignedConfig(l, curOk) ==
    LET src == checkpointStore.current
    IN  IF ~curOk
        THEN [config |-> NoConfig, src |-> Nil,
              reason |-> Sprintf("CurFailLoadReasonFmt", "unknown"),
              err |-> <<"Current">>, validated |-> {},
              calls |-> <<Call("Current", FALSE)>>]
        ELSE IF src = Nil
        THEN assignedLocal(l, src)
        ELSE assignedFromCheckpoint(src)

\* variant of loadLastKnownGoodConfig: the parsed checkpoint is not validated
loadLastKnownGoodConfigUnvalidated(l, lkgOk) ==
    LET src == checkpointStore.lastKnownGood
        cp == checkpointStore.checkpoints[src]
    IN  IF ~lkgOk
        THEN [config |-> NoConfig, src |-> Nil,
              err |-> Errorf("unable to determine last-known-good config", "LastKnownGood"),
              validated |-> {},
              calls |-> <<Call("LastKnownGood", FALSE)>>]
        ELSE IF src = Nil
        THEN [config |-> l, src |-> src, err |-> NoErr, validated |-> {},
              calls |-> <<Call("LastKnownGood", TRUE)>>]
        ELSE IF ~cp.loadable
        THEN [config |-> NoConfig, src |-> src,
              err |-> Errorf("LkgFailLoadReasonFmt", src), validated |-> {},
              calls |-> <<Call("LastKnownGood", TRUE), Call("Load", FALSE)>>]
        ELSE IF ~cp.parsable
        THEN [config |-> NoConfig, src |-> src,
              err |-> Errorf("LkgFailParseReasonFmt", src), validated |-> {},
              calls |-> <<Call("LastKnownGood", TRUE), Call("Load", TRUE)>>]
        ELSE [config |-> cp.config, src |-> src, err |-> NoErr, validated |-> {},
              calls |-> <<Call("LastKnownGood", TRUE), Call("Load", TRUE)>>]

\* variant of loadLastKnownGoodConfig: a checkpoint that cannot be used makes it
\* fall back to the local config
loadLastKnownGoodConfigFallsBack(l, lkgOk) ==
    LET src == checkpointStore.lastKnownGood
        cp == checkpointStore.checkpoints[src]
    IN  IF ~lkgOk
        THEN [config |-> NoConfig, src |-> Nil,
              err |-> Errorf("unable to determine last-known-good config", "LastKnownGood"),
              validated |-> {},
              calls |-> <<Call("LastKnownGood", FALSE)>>]
        ELSE IF src = Nil
        THEN [config |-> l, src |-> src, err |-> NoErr, validated |-> {},
              calls |-> <<Call("LastKnownGood", TRUE)>>]
        ELSE IF ~cp.loadable
        THEN [config |-> l, src |-> Nil, err |-> NoErr, validated |-> {},
              calls |-> <<Call("LastKnownGood", TRUE), Call("Load", FALSE)>>]
        ELSE IF ~cp.parsable \/ ~ValidateKubeletConfiguration(cp.config)
        THEN [config |-> l, src |-> Nil, err |-> NoErr, validated |-> {},
              calls |-> <<Call("LastKnownGood", TRUE), Call("Load", TRUE)>>]
        ELSE [config |-> cp.config, src |-> src, err |-> NoErr,
              validated |-> {cp.config},
              calls |-> <<Call("LastKnownGood", TRUE), Call("Load", TRUE)>>]

\* loadLastKnownGoodConfig(local); lkgOk: checkpointStore.LastKnownGood() succeeds
loadLastKnownGoodConfig(l, lkgOk) ==
    LET src == checkpointStore.lastKnownGood
        cp == checkpointStore.checkpoints[src]
    IN  IF ~lkgOk
        THEN [config |-> NoConfig, src |-> Nil,
              err |-> Errorf("unable to determine last-known-good config", "LastKnownGood"),
              validated |-> {},
              calls |-> <<Call("LastKnownGood", FALSE)>>]
        ELSE IF src = Nil
        THEN [config |-> l, src |-> src, err |-> NoErr, validated |-> {},
              calls |-> <<Call("LastKnownGood", TRUE)>>]
        ELSE IF ~cp.loadable
        THEN [config |-> NoConfig, src |-> src,
              err |-> Errorf("LkgFailLoadReasonFmt", src), validated |-> {},
              calls |-> <<Call("LastKnownGood", TRUE), Call("Load", FALSE)>>]
        ELSE IF ~cp.parsable
        THEN [config |-> NoConfig, src |-> src,
              err |-> Errorf("LkgFailParseReasonFmt", src), validated |-> {},
              calls |-> <<Call("LastKnownGood", TRUE), Call("Load", TRUE)>>]
        ELSE IF ~ValidateKubeletConfiguration(cp.config)
        THEN [config |-> NoConfig, src |-> src,
              err |-> Errorf("LkgFailValidateReasonFmt", src), validated |-> {},
              calls |-> <<Call("LastKnownGood", TRUE), Call("Load", TRUE)>>]
        ELSE [config |-> cp.config, src |-> src, err |-> NoErr,
              validated |-> {cp.config},
              calls |-> <<Call("LastKnownGood", TRUE), Call("Load", TRUE)>>]

\* variant of inTrial: the boundary counts as out of trial
inTrialStrict(trialDur, t, n) == n - t < trialDur

\* inTrial: now.Sub(t) <= trialDur
inTrial(trialDur, t, n) == n - t <= trialDur

\* variant of graduateAssignedToLastKnownGood: the error of Current() is
\* dropped and the nil source it returned is written
graduateAssignedToLastKnownGoodIgnoresReadErr(curOk, setOk) ==
    IF ~setOk
    THEN [store |-> checkpointStore, err |-> <<"SetLastKnownGood">>,
          calls |-> <<Call("Current", curOk), Call("SetLastKnownGood", FALSE)>>]
    ELSE [store |-> [checkpointStore EXCEPT
                        !.lastKnownGood = IF curOk THEN checkpointStore.current ELSE Nil],
          err |-> NoErr,
          calls |-> <<Call("Current", curOk), Call("SetLastKnownGood", TRUE)>>]

\* variant of graduateAssignedToLastKnownGood: the pointers are swapped, current
\* is set to the last-known-good source
graduateAssignedToLastKnownGoodSwapped(curOk, setOk) ==
    IF ~curOk
    THEN [store |-> checkpointStore, err |-> <<"Current">>,
          calls |-> <<Call("Current", FALSE)>>]
    ELSE IF ~setOk
    THEN [store |-> checkpointStore, err |-> <<"SetLastKnownGood">>,
          calls |-> <<Call("Current", TRUE), Call("SetLastKnownGood", FALSE)>>]
    ELSE [store |-> [checkpointStore EXCEPT !.current = checkpointStore.lastKnownGood],
          err |-> NoErr,
          calls |-> <<Call("Current", TRUE), Call("SetLastKnownGood", TRUE)>>]

\* graduateAssignedToLastKnownGood; curOk, setOk: Current() and
\* SetLastKnownGood() succeed
graduateAssignedToLastKnownGood(curOk, setOk) ==
    IF ~curOk
    THEN [store |-> checkpointStore, err |-> <<"Current">>,
          calls |-> <<Call("Current", FALSE)>>]
    ELSE IF ~setOk
    THEN [store |-> checkpointStore, err |-> <<"SetLastKnownGood">>,
          calls |-> <<Call("Current", TRUE), Call("SetLastKnownGood", FALSE)>>]
    ELSE [store |-> [checkpointStore EXCEPT !.lastKnownGood = checkpointStore.current],
          err |-> NoErr,
          calls |-> <<Call("Current", TRUE), Call("SetLastKnownGood", TRUE)>>]

\* variant of NotDynamicCondition: a negative condition
NotDynamicConditionFalse ==
    Condition(NotDynamicLocalMessage, NotDynamicLocalReason, ConditionFalse)

\* the condition Bootstrap sets when dynamic config is disabled
NotDynamicCondition == Condition(NotDynamicLocalMessage, NotDynamicLocalReason, ConditionTrue)

\* variant of AssignedCondition: the message never names the source
AssignedConditionNoUID(src, rsn) == Condition(CurLocalMessage, rsn, ConditionTrue)

\* the condition Bootstrap sets when the assigned config is used
AssignedCondition(src, rsn) ==
    IF src # Nil
    THEN Condition(Sprintf("CurRemoteMessageFmt", src), rsn, ConditionTrue)
    ELSE Condition(CurLocalMessage, rsn, ConditionTrue)

\* variant of RollbackCondition: the reason is derived from the last-known-good
\* source instead of the assigned config's failure
RollbackConditionLkgReason(src, rsn) ==
    IF src # Nil
    THEN Condition(Sprintf("LkgRemoteMessageFmt", src),
                   Sprintf("CurFailLoadReasonFmt", src), ConditionFalse)
    ELSE Condition(LkgLocalMessage, CurLocalOkayReason, ConditionFalse)

\* the condition Bootstrap sets when it rolled back to the last-known-good
RollbackCondition(src, rsn) ==
    IF src # Nil
    THEN Condition(Sprintf("LkgRemoteMessageFmt", src), rsn, ConditionFalse)
    ELSE Condition(LkgLocalMessage, rsn, ConditionFalse)

\* ---------------------------------------------------------- construction
\* variant of pendingConfigSourceCap: an unbuffered channel
pendingConfigSourceCapZero == 1 - 1

\* variant of pendingConfigSourceCap: a larger buffer
pendingConfigSourceCapTwo == 1 + 1

\* make(chan bool, 1): capacity of pendingConfigSource
pendingConfigSourceCap == 1

LoopNames == {"configOK", "informer", "syncConfigSource"}

\* the process before any panic
Running == [panicked |-> Nil, handlersCalled |-> FALSE, exited |-> FALSE]

\* StartSync's arguments: client (nil or not) and nodeName (empty or not)
NoSyncCall == [called |-> FALSE, client |-> Nil, nodeName |-> ""]

Stores ==
    {st \in [initialized : {FALSE}, current : Sources, currentModified : 0..MaxTime,
             lastKnownGood : Sources,
             checkpoints : [UIDs -> UNION {CheckpointsOf(u) : u \in UIDs}]] :
        \A u \in UIDs : st.checkpoints[u] \in CheckpointsOf(u)}

\* NewController: the fields of a freshly constructed Controller, with the
\* Bootstrap call not yet started
Constructed ==
    /\ pendingConfigSource = 0
    /\ configOK = NewConfigOKCondition
    /\ informer = Nil
    /\ pc = "start"
    /\ local = NoConfig
    /\ assigned = NoConfig
    /\ curSource = Nil
    /\ reason = <<>>
    /\ err = NoErr
    /\ trial = FALSE
    /\ lkg = NoConfig
    /\ lkgSource = Nil
    /\ ret = NoReturn
    /\ now = 0
    /\ validated = {}
    /\ calls = <<>>
    /\ store0 = checkpointStore
    /\ loops = {}
    /\ loopPc = [l \in LoopNames |-> "notStarted"]
    /\ raises = 0
    /\ dropped = 0
    /\ syncCall = NoSyncCall
    /\ nodeCondition = NewConfigOKCondition
    /\ lastPublish = "none"
    /\ lastSync = "none"
    /\ process = Running

Init ==
    /\ dynamicConfig \in BOOLEAN
    /\ defaultConfig \in ConfigsOf("default")
    /\ fileLoader \in Loaders
    /\ checkpointStore \in Stores
    /\ Constructed

\* -------------------------------------------------------------- Bootstrap
\* lines 114-118: load and validate the local config
BootstrapLoadLocal ==
    /\ pc = "start"
    /\ LET r == loadLocalConfig
       IN  /\ validated' = validated \cup r.validated
           /\ IF r.err # NoErr
              THEN /\ ret' = Return(NoConfig, r.err)
                   /\ pc' = "done"
                   /\ local' = local
              ELSE /\ local' = r.config
                   /\ pc' = "checkDynamic"
                   /\ ret' = ret
    /\ UNCHANGED <<ctlVars, syncVars, configOK, checkpointStore, assigned, curSource,
                   reason, err, trial, lkg, lkgSource, now, calls, store0>>

\* lines 120-128: dynamic config disabled, stop with the local config
BootstrapNotDynamic ==
    /\ pc = "checkDynamic"
    /\ ~dynamicConfig
    /\ configOK' = NotDynamicCondition
    /\ ret' = Return(local, NoErr)
    /\ pc' = "done"
    /\ UNCHANGED <<ctlVars, syncVars, checkpointStore, local, assigned, curSource,
                   reason, err, trial, lkg, lkgSource, now, validated, calls, store0>>

\* variant of BootstrapInitialize: the error of Initialize is not checked
BootstrapInitializeIgnoresErr ==
    /\ pc = "checkDynamic"
    /\ dynamicConfig
    /\ \E ok \in BOOLEAN :
          /\ calls' = Append(calls, Call("Initialize", ok))
          /\ checkpointStore' = [checkpointStore EXCEPT !.initialized = ok]
    /\ pc' = "loadAssigned"
    /\ UNCHANGED <<ctlVars, syncVars, configOK, local, assigned, curSource,
                   reason, err, trial, lkg, lkgSource, ret, now, validated, store0>>

\* lines 130-133: initializeDynamicConfigDir
BootstrapInitialize ==
    /\ pc = "checkDynamic"
    /\ dynamicConfig
    /\ \E ok \in BOOLEAN :
          /\ calls' = Append(calls, Call("Initialize", ok))
          /\ checkpointStore' = [checkpointStore EXCEPT !.initialized = ok]
          /\ IF ok
             THEN pc' = "loadAssigned" /\ ret' = ret
             ELSE pc' = "done" /\ ret' = Return(NoConfig, <<"Initialize">>)
    /\ UNCHANGED <<ctlVars, syncVars, configOK, local, assigned, curSource,
                   reason, err, trial, lkg, lkgSource, now, validated, store0>>

\* variant of BootstrapLoadAssigned: the success branch is missing, Bootstrap
\* always goes on to the last-known-good config
BootstrapLoadAssignedNoSuccessBranch ==
    /\ pc = "loadAssigned"
    /\ \E curOk \in BOOLEAN :
          LET r == loadAssignedConfig(local, curOk)
          IN  /\ assigned' = r.config
              /\ curSource' = r.src
              /\ reason' = r.reason
              /\ err' = r.err
              /\ validated' = validated \cup r.validated
              /\ calls' = calls \o r.calls
    /\ pc' = "loadLkg"
    /\ UNCHANGED <<ctlVars, syncVars, configOK, checkpointStore, local, trial, lkg,
                   lkgSource, ret, now, store0>>

\* line 135: loadAssignedConfig(local)
BootstrapLoadAssigned ==
    /\ pc = "loadAssigned"
    /\ \E curOk \in BOOLEAN :
          LET r == loadAssignedConfig(local, curOk)
          IN  /\ assigned' = r.config
              /\ curSource' = r.src
              /\ reason' = r.reason
              /\ err' = r.err
              /\ validated' = validated \cup r.validated
              /\ calls' = calls \o r.calls
              /\ pc' = IF r.err = NoErr THEN "setAssignedStatus" ELSE "loadLkg"
    /\ UNCHANGED <<ctlVars, syncVars, configOK, checkpointStore, local, trial, lkg,
                   lkgSource, ret, now, store0>>

\* lines 136-142: report that the assigned config will be used
BootstrapSetAssignedStatus ==
    /\ pc = "setAssignedStatus"
    /\ configOK' = AssignedCondition(curSource, reason)
    /\ pc' = "inTrial"
    /\ UNCHANGED <<ctlVars, syncVars, checkpointStore, local, assigned, curSource,
                   reason, err, trial, lkg, lkgSource, ret, now, validated, calls, store0>>

\* lines 145-147 and 323-333: inTrial(assigned.ConfigTrialDuration)
BootstrapInTrial ==
    /\ pc = "inTrial"
    /\ \E n \in 0..MaxTime, modOk \in BOOLEAN :
          /\ now' = n
          /\ calls' = Append(calls, Call("CurrentModified", modOk))
          /\ IF ~modOk
             THEN trial' = FALSE /\ pc' = "returnAssigned"
             ELSE /\ trial' = inTrial(assigned.trial, checkpointStore.currentModified, n)
                  /\ pc' = IF trial' THEN "returnAssigned" ELSE "graduate"
    /\ UNCHANGED <<ctlVars, syncVars, configOK, checkpointStore, local, assigned,
                   curSource, reason, err, lkg, lkgSource, ret, validated, store0>>

\* lines 148-151: the trial is over, graduateAssignedToLastKnownGood
BootstrapGraduate ==
    /\ pc = "graduate"
    /\ \E curOk \in BOOLEAN, setOk \in BOOLEAN :
          LET r == graduateAssignedToLastKnownGood(curOk, setOk)
          IN  /\ checkpointStore' = r.store
              /\ calls' = calls \o r.calls
    /\ pc' = "returnAssigned"
    /\ UNCHANGED <<ctlVars, syncVars, configOK, local, assigned, curSource, reason,
                   err, trial, lkg, lkgSource, ret, now, validated, store0>>

\* line 154: return assigned, nil
BootstrapReturnAssigned ==
    /\ pc = "returnAssigned"
    /\ ret' = Return(assigned, NoErr)
    /\ pc' = "done"
    /\ UNCHANGED <<ctlVars, syncVars, configOK, checkpointStore, local, assigned,
                   curSource, reason, err, trial, lkg, lkgSource, now, validated,
                   calls, store0>>

\* lines 165-169: loadLastKnownGoodConfig(local)
BootstrapLoadLkg ==
    /\ pc = "loadLkg"
    /\ \E lkgOk \in BOOLEAN :
          LET r == loadLastKnownGoodConfig(local, lkgOk)
          IN  /\ lkg' = r.config
              /\ lkgSource' = r.src
              /\ validated' = validated \cup r.validated
              /\ calls' = calls \o r.calls
              /\ IF r.err # NoErr
                 THEN pc' = "done" /\ ret' = Return(NoConfig, r.err)
                 ELSE pc' = "setLkgStatus" /\ ret' = ret
    /\ UNCHANGED <<ctlVars, syncVars, configOK, checkpointStore, local, assigned,
                   curSource, reason, err, trial, now, store0>>

\* lines 171-179: report the roll-back and return the last-known-good config
BootstrapReturnLkg ==
    /\ pc = "setLkgStatus"
    /\ configOK' = RollbackCondition(lkgSource, reason)
    /\ ret' = Return(lkg, NoErr)
    /\ pc' = "done"
    /\ UNCHANGED <<ctlVars, syncVars, checkpointStore, local, assigned, curSource,
                   reason, err, trial, lkg, lkgSource, now, validated, calls, store0>>

Next ==
    \/ BootstrapLoadLocal
    \/ BootstrapNotDynamic
    \/ BootstrapInitialize
    \/ BootstrapLoadAssigned
    \/ BootstrapSetAssignedStatus
    \/ BootstrapInTrial
    \/ BootstrapGraduate
    \/ BootstrapReturnAssigned
    \/ BootstrapLoadLkg
    \/ BootstrapReturnLkg

Spec == Init /\ [][Next]_vars

\* -------------------------------------------------------------- StartSync
\* variant of StartedLoops: the dynamic config loops start whatever dynamicConfig is
StartedLoopsIgnoreDynamic(client, nodeName) ==
    IF client = Nil
    THEN {}
    ELSE IF nodeName = ""
    THEN {}
    ELSE {"configOK", "informer", "syncConfigSource"}

\* the goroutines StartSync launches for this client, nodeName and dynamicConfig
StartedLoops(client, nodeName) ==
    IF client = Nil
    THEN {}
    ELSE IF nodeName = ""
    THEN {}
    ELSE {"configOK"} \cup (IF dynamicConfig THEN {"informer", "syncConfigSource"} ELSE {})

\* variant of StartSync: callable while Bootstrap is still running
StartSyncEarly ==
    /\ ~syncCall.called
    /\ \E client \in {Nil, "client"}, nodeName \in {"", "node"} :
          LET started == StartedLoops(client, nodeName)
          IN  /\ syncCall' = [called |-> TRUE, client |-> client, nodeName |-> nodeName]
              /\ loops' = started
              /\ loopPc' = [l \in LoopNames |->
                              IF l \in started THEN "waiting" ELSE loopPc[l]]
              /\ informer' = IF "informer" \in started THEN "nodeInformer" ELSE informer
    /\ UNCHANGED <<ctlVars, bootVars, configOK, checkpointStore, pendingConfigSource,
                   raises, dropped, nodeCondition, lastPublish, lastSync, process>>

\* lines 185-226: StartSync(client, eventClient, nodeName), called after Bootstrap
StartSync ==
    /\ pc = "done"
    /\ ~syncCall.called
    /\ \E client \in {Nil, "client"}, nodeName \in {"", "node"} :
          LET started == StartedLoops(client, nodeName)
          IN  /\ syncCall' = [called |-> TRUE, client |-> client, nodeName |-> nodeName]
              /\ loops' = started
              /\ loopPc' = [l \in LoopNames |->
                              IF l \in started THEN "waiting" ELSE loopPc[l]]
              /\ informer' = IF "informer" \in started THEN "nodeInformer" ELSE informer
    /\ UNCHANGED <<ctlVars, bootVars, configOK, checkpointStore, pendingConfigSource,
                   raises, dropped, nodeCondition, lastPublish, lastSync, process>>

\* variant of ConfigOKTick: the loop ends after a failed sync
ConfigOKTickUntilError ==
    /\ ~process.exited
    /\ loopPc["configOK"] = "waiting"
    /\ lastPublish # "failed"
    /\ loopPc' = [loopPc EXCEPT !["configOK"] = "running"]
    /\ UNCHANGED <<ctlVars, bootVars, configOK, checkpointStore, pendingConfigSource,
                   informer, loops, raises, dropped, syncCall, nodeCondition,
                   lastPublish, lastSync, process>>

\* lines 197-199: wait.JitterUntil fires the next ConfigOK sync
ConfigOKTick ==
    /\ ~process.exited
    /\ loopPc["configOK"] = "waiting"
    /\ loopPc' = [loopPc EXCEPT !["configOK"] = "running"]
    /\ UNCHANGED <<ctlVars, bootVars, configOK, checkpointStore, pendingConfigSource,
                   informer, loops, raises, dropped, syncCall, nodeCondition,
                   lastPublish, lastSync, process>>

\* line 198: cc.configOK.Sync(client, nodeName) pushes the condition, or fails
ConfigOKSync ==
    /\ ~process.exited
    /\ loopPc["configOK"] = "running"
    /\ \E ok \in BOOLEAN :
          /\ nodeCondition' = IF ok THEN configOK ELSE nodeCondition
          /\ lastPublish' = IF ok THEN "ok" ELSE "failed"
    /\ loopPc' = [loopPc EXCEPT !["configOK"] = "waiting"]
    /\ UNCHANGED <<ctlVars, bootVars, configOK, checkpointStore, pendingConfigSource,
                   informer, loops, raises, dropped, syncCall, lastSync, process>>

\* non-blocking write to a channel holding n values: buffered if there is
\* room, dropped otherwise
TrySend(n) == IF n < pendingConfigSourceCap THEN n + 1 ELSE n

\* lines 211-214: the informer delivers a Node event whose callback raises the
\* pending signal
InformerRaise ==
    /\ ~process.exited
    /\ loopPc["informer"] = "waiting"
    /\ raises < MaxRaises
    /\ pendingConfigSource' = TrySend(pendingConfigSource)
    /\ raises' = raises + 1
    /\ dropped' = IF pendingConfigSource' = pendingConfigSource THEN dropped + 1 ELSE dropped
    /\ UNCHANGED <<ctlVars, bootVars, configOK, checkpointStore, informer, loops,
                   loopPc, syncCall, nodeCondition, lastPublish, lastSync, process>>

\* lines 219-221: wait.JitterUntil fires the next syncConfigSource
SyncConfigSourceTick ==
    /\ ~process.exited
    /\ loopPc["syncConfigSource"] = "waiting"
    /\ loopPc' = [loopPc EXCEPT !["syncConfigSource"] = "running"]
    /\ lastSync' = "none"
    /\ UNCHANGED <<ctlVars, bootVars, configOK, checkpointStore, pendingConfigSource,
                   informer, loops, raises, dropped, syncCall, nodeCondition,
                   lastPublish, process>>

\* line 220: syncConfigSource checks the pending signal; it consumes it and
\* goes on to sync, or finds nothing pending and returns
SyncConfigSourceCheck ==
    /\ ~process.exited
    /\ loopPc["syncConfigSource"] = "running"
    /\ IF pendingConfigSource > 0
       THEN /\ pendingConfigSource' = pendingConfigSource - 1
            /\ raises' = 0
            /\ dropped' = 0
            /\ lastSync' = "consumed"
            /\ loopPc' = [loopPc EXCEPT !["syncConfigSource"] = "syncing"]
       ELSE /\ loopPc' = [loopPc EXCEPT !["syncConfigSource"] = "waiting"]
            /\ lastSync' = "empty"
            /\ UNCHANGED <<pendingConfigSource, raises, dropped>>
    /\ UNCHANGED <<ctlVars, bootVars, configOK, checkpointStore, informer, loops,
                   syncCall, nodeCondition, lastPublish, process>>

\* line 220: the sync attempt: download and checkpoint the newly assigned
\* source and point current at it, or fail
SyncConfigSourceAttempt ==
    /\ ~process.exited
    /\ loopPc["syncConfigSource"] = "syncing"
    /\ \E ok \in BOOLEAN, src \in Sources, t \in 0..MaxTime :
          /\ checkpointStore' =
                IF ok /\ src # checkpointStore.current
                THEN [checkpointStore EXCEPT !.current = src, !.currentModified = t]
                ELSE checkpointStore
          /\ lastSync' = IF ok THEN "attemptOk" ELSE "attemptFailed"
    /\ loopPc' = [loopPc EXCEPT !["syncConfigSource"] = "waiting"]
    /\ UNCHANGED <<ctlVars, bootVars, configOK, pendingConfigSource, informer, loops,
                   raises, dropped, syncCall, nodeCondition, lastPublish, process>>

\* variant of HandlePanicWraps: the informer goroutine is launched bare
HandlePanicWrapsPeriodicOnly(l) == l # "informer"

\* lines 195, 211, 217: the goroutine of loop l runs inside utilpanic.HandlePanic
HandlePanicWraps(l) == l \in LoopNames

\* lines 207-210: a panic in a loop: HandlePanic calls the panic handlers and
\* panics again, which ends the process
LoopPanic ==
    /\ ~process.exited
    /\ \E l \in loops :
          /\ loopPc[l] # "notStarted"
          /\ loopPc' = [loopPc EXCEPT ![l] = "panicked"]
          /\ process' = [panicked |-> l, handlersCalled |-> HandlePanicWraps(l),
                         exited |-> TRUE]
    /\ UNCHANGED <<ctlVars, bootVars, configOK, checkpointStore, pendingConfigSource,
                   informer, loops, raises, dropped, syncCall, nodeCondition,
                   lastPublish, lastSync>>

\* a small set of stores for the runs that go on into the sync loops
SyncStores ==
    {st \in Stores :
        /\ st.currentModified = 0
        /\ st.lastKnownGood = Nil
        /\ \A u \in UIDs :
              /\ st.checkpoints[u].loadable
              /\ st.checkpoints[u].parsable =>
                    st.checkpoints[u].config.valid /\ st.checkpoints[u].config.trial = 0}

SyncInit ==
    /\ dynamicConfig \in BOOLEAN
    /\ defaultConfig = [src |-> "default", valid |-> TRUE, trial |-> 0]
    /\ fileLoader = NoLoader
    /\ checkpointStore \in SyncStores
    /\ Constructed

SyncNext ==
    \/ Next
    \/ StartSync
    \/ ConfigOKTick
    \/ ConfigOKSync
    \/ InformerRaise
    \/ SyncConfigSourceTick
    \/ SyncConfigSourceCheck
    \/ SyncConfigSourceAttempt
    \/ LoopPanic

SyncSpec == SyncInit /\ [][SyncNext]_vars

\* wait.JitterUntil with wait.NeverStop keeps firing both periodic loops, and
\* an iteration that started runs to its end
LoopFairness ==
    /\ WF_vars(ConfigOKTick)
    /\ WF_vars(ConfigOKSync)
    /\ WF_vars(SyncConfigSourceTick)
    /\ WF_vars(SyncConfigSourceCheck)
    /\ WF_vars(SyncConfigSourceAttempt)

\* the stores of the runs checked under fairness: a current pointer is set and
\* every checkpoint is good
FairSyncInit ==
    /\ SyncInit
    /\ checkpointStore.current # Nil
    /\ \A u \in UIDs : checkpointStore.checkpoints[u].parsable

FairSyncSpec == FairSyncInit /\ [][SyncNext]_vars /\ LoopFairness

\* ================================================================ claims
\* Vocabulary of the claims, stated over the inputs Bootstrap was given
\* (store0, defaultConfig, fileLoader) rather than over its locals.

\* the local configuration is valid: defaults valid, file (if any) loads and is valid
LocalValid ==
    /\ defaultConfig.valid
    /\ fileLoader.present => (~fileLoader.loadErr /\ fileLoader.kc.valid)

\* the local configuration: the file's if a file is configured, else the defaults
LocalConfig == IF fileLoader.present THEN fileLoader.kc ELSE defaultConfig

\* the checkpoint of u loads, parses and validates
GoodCheckpoint(u) ==
    LET cp == store0.checkpoints[u]
    IN  cp.loadable /\ cp.parsable /\ cp.config.valid

\* a store operation was performed with this outcome
Has(op, ok) == \E i \in DOMAIN calls : calls[i] = Call(op, ok)

AllCallsOk == \A i \in DOMAIN calls : calls[i].ok

\* Bootstrap got as far as reading the current pointer, and the read succeeded
CurrentWasRead == Len(calls) >= 2 /\ calls[2] = Call("Current", TRUE)

\* the reason of the stage at which resolving u fails
FailureReason(u) ==
    LET cp == store0.checkpoints[u]
    IN  IF ~cp.loadable THEN <<"CurFailLoadReasonFmt", u>>
        ELSE IF ~cp.parsable THEN <<"CurFailParseReasonFmt", u>>
        ELSE <<"CurFailValidateReasonFmt", u>>

\* the assigned-resolve step fails: current cannot be read, or references a
\* checkpoint that fails to load, parse or validate
AssignedFails ==
    /\ Len(calls) >= 2
    /\ calls[2].op = "Current"
    /\ \/ ~calls[2].ok
       \/ store0.current # Nil /\ ~GoodCheckpoint(store0.current)

\* the last-known-good step was taken and fails
LkgFails ==
    \/ Has("LastKnownGood", FALSE)
    \/ /\ Has("LastKnownGood", TRUE)
       /\ store0.lastKnownGood # Nil
       /\ ~GoodCheckpoint(store0.lastKnownGood)

\* the last-known-good step was taken and resolves
LkgResolves ==
    /\ Has("LastKnownGood", TRUE)
    /\ store0.lastKnownGood # Nil => GoodCheckpoint(store0.lastKnownGood)

\* the configuration the last-known-good pointer stands for
LkgConfig ==
    IF store0.lastKnownGood = Nil
    THEN LocalConfig
    ELSE store0.checkpoints[store0.lastKnownGood].config

\* the configuration the current pointer stands for
AssignedConfig ==
    IF store0.current = Nil
    THEN LocalConfig
    ELSE store0.checkpoints[store0.current].config

\* C1: Bootstrap returns exactly one of a configuration and an error, and a
\* returned configuration is the local, assigned or last-known-good one and
\* was accepted by the validator during this call.
C1_ReturnsOnlyValidated ==
    ret.returned =>
        /\ (ret.err = NoErr) # (ret.config = NoConfig)
        /\ ret.config # NoConfig =>
              /\ ret.config \in validated
              /\ ret.config.valid
              /\ ret.config \in {LocalConfig, AssignedConfig, LkgConfig}

C1_Witness ==
    /\ ret.returned
    /\ AssignedFails
    /\ store0.lastKnownGood # Nil
    /\ ret.config = LkgConfig
    /\ ret.err = NoErr

\* C2: dynamic config on, local valid, current references a UID whose
\* checkpoint fails to load, parse or validate, last-known-good resolves:
\* Bootstrap returns the last-known-good configuration without error, and the
\* condition is not-ok with the assigned step's failure reason for that UID.
C2_RollbackReportsAssignedFailure ==
    (/\ ret.returned
     /\ dynamicConfig
     /\ LocalValid
     /\ CurrentWasRead
     /\ store0.current # Nil
     /\ ~GoodCheckpoint(store0.current)
     /\ LkgResolves)
    => /\ ret = Return(LkgConfig, NoErr)
       /\ configOK.status = ConditionFalse
       /\ configOK.reason = FailureReason(store0.current)

C2_Witness ==
    /\ ret.returned
    /\ CurrentWasRead
    /\ store0.current # Nil
    /\ store0.checkpoints[store0.current].loadable
    /\ ~store0.checkpoints[store0.current].parsable
    /\ LkgResolves
    /\ store0.lastKnownGood # Nil
    /\ store0.lastKnownGood # store0.current
    /\ configOK.reason = <<"CurFailParseReasonFmt", store0.current>>

\* C3: when the assigned step fails and the last-known-good step fails too,
\* Bootstrap returns an error and no configuration (no fallback to local).
C3_NoFallbackPastLkg ==
    (ret.returned /\ AssignedFails /\ LkgFails)
    => ret.err # NoErr /\ ret.config = NoConfig

C3_Witness ==
    /\ ret.returned
    /\ LocalValid
    /\ AssignedFails
    /\ Has("LastKnownGood", TRUE)
    /\ store0.lastKnownGood # Nil
    /\ ~GoodCheckpoint(store0.lastKnownGood)
    /\ ret.err # NoErr

\* the assigned config resolved and Bootstrap returned with every store
\* operation having succeeded
AssignedPathAllOk ==
    /\ ret.returned
    /\ dynamicConfig
    /\ LocalValid
    /\ AllCallsOk
    /\ store0.current # Nil => GoodCheckpoint(store0.current)

\* C4: trial promotion. With the assigned config resolved and all store
\* operations succeeding, last-known-good is unchanged when
\* now - T <= D and equals the current pointer when now - T > D.
C4_TrialPromotion ==
    AssignedPathAllOk =>
        /\ Has("CurrentModified", TRUE)
        /\ IF now - store0.currentModified <= AssignedConfig.trial
           THEN checkpointStore.lastKnownGood = store0.lastKnownGood
           ELSE checkpointStore.lastKnownGood = store0.current

C4_Witness ==
    /\ AssignedPathAllOk
    /\ now - store0.currentModified > AssignedConfig.trial
    /\ store0.current # Nil
    /\ store0.lastKnownGood # store0.current
    /\ checkpointStore.lastKnownGood = store0.current

\* C5: an invalid local configuration makes Bootstrap return an error and no
\* configuration, whatever dynamicConfig and the store hold; Bootstrap goes
\* no further than the local step.
C5_InvalidLocalIsFatal ==
    ~LocalValid =>
        /\ pc \in {"start", "done"}
        /\ ret.returned => (ret.err # NoErr /\ ret.config = NoConfig)

C5_Witness ==
    /\ ret.returned
    /\ defaultConfig.valid
    /\ fileLoader.present
    /\ ~fileLoader.loadErr
    /\ ~fileLoader.kc.valid
    /\ dynamicConfig
    /\ ret.err # NoErr

\* C6: local valid and dynamic config disabled: Bootstrap returns the local
\* configuration without error, sets the ok "not dynamic, local" condition,
\* and performs no store operation.
C6_DynamicDisabledUsesLocal ==
    (ret.returned /\ LocalValid /\ ~dynamicConfig)
    => /\ ret = Return(LocalConfig, NoErr)
       /\ configOK = Condition(<<"NotDynamicLocalMessage">>,
                               <<"NotDynamicLocalReason">>, "True")
       /\ calls = <<>>
       /\ checkpointStore = store0

C6_Witness ==
    /\ ret.returned
    /\ LocalValid
    /\ ~dynamicConfig
    /\ fileLoader.present
    /\ ret.config = fileLoader.kc

\* C7: dynamic config on, local valid, store initialized, current absent:
\* Bootstrap returns the local configuration without error and the
\* condition is ok with the local-ok reason.
C7_AbsentCurrentUsesLocal ==
    (/\ ret.returned
     /\ dynamicConfig
     /\ LocalValid
     /\ CurrentWasRead
     /\ store0.current = Nil)
    => /\ ret = Return(LocalConfig, NoErr)
       /\ configOK.status = ConditionTrue
       /\ configOK.reason = <<"CurLocalOkayReason">>

C7_Witness ==
    /\ ret.returned
    /\ dynamicConfig
    /\ CurrentWasRead
    /\ store0.current = Nil
    /\ ret.config = LocalConfig
    /\ configOK.reason = <<"CurLocalOkayReason">>

\* current references a UID whose checkpoint is good, and Bootstrap returned
AssignedRemoteOk ==
    /\ ret.returned
    /\ dynamicConfig
    /\ LocalValid
    /\ CurrentWasRead
    /\ store0.current # Nil
    /\ GoodCheckpoint(store0.current)

\* C8 as stated: with current = u and u's checkpoint good, Bootstrap returns
\* u's configuration and the condition is ok with a reason tagged with u.
C8_ReasonTaggedWithUID ==
    AssignedRemoteOk =>
        /\ ret = Return(AssignedConfig, NoErr)
        /\ configOK.status = ConditionTrue
        /\ Len(configOK.reason) = 2
        /\ configOK.reason[2] = store0.current

\* C8 amended: with current = u and u's checkpoint good, Bootstrap returns
\* u's configuration and the condition is ok with the fixed remote-ok reason,
\* which carries no UID; the UID u is named by the condition's message.
C8_RemoteOkReasonUntagged ==
    AssignedRemoteOk =>
        /\ ret = Return(AssignedConfig, NoErr)
        /\ configOK.status = ConditionTrue
        /\ configOK.reason = <<"CurRemoteOkayReason">>
        /\ configOK.message = <<"CurRemoteMessageFmt", store0.current>>

C8_Witness ==
    /\ AssignedRemoteOk
    /\ ret.config.src = store0.current
    /\ configOK.reason = <<"CurRemoteOkayReason">>

\* C9: the pending signal holds at most one value; while the informer loop
\* runs a raise is always possible (it never blocks); after N >= 1 raises
\* since the last consume exactly one value is pending and N - 1 raises
\* were dropped.
C9_PendingSignalCoalesces ==
    /\ pendingConfigSource \in {0, 1}
    /\ raises >= 1 => (pendingConfigSource = 1 /\ dropped = raises - 1)
    /\ (loopPc["informer"] = "waiting" /\ raises < MaxRaises /\ ~process.exited) =>
          ENABLED InformerRaise

C9_Witness ==
    /\ raises >= 2
    /\ dropped >= 1
    /\ pendingConfigSource = 1

\* C10: StartSync starts no loop when the client is nil or the node name is
\* empty; otherwise it starts the ConfigOK loop, and the informer and config
\* source loops exactly when dynamic config is enabled.
C10_StartSyncLoops ==
    /\ ~syncCall.called => loops = {}
    /\ syncCall.called =>
          /\ (syncCall.client = Nil \/ syncCall.nodeName = "") => loops = {}
          /\ (syncCall.client # Nil /\ syncCall.nodeName # "") =>
                /\ "configOK" \in loops
                /\ "informer" \in loops <=> dynamicConfig
                /\ "syncConfigSource" \in loops <=> dynamicConfig
    /\ \A l \in LoopNames : (loopPc[l] # "notStarted") <=> (l \in loops)

C10_Witness ==
    /\ syncCall.called
    /\ syncCall.client # Nil
    /\ syncCall.nodeName # ""
    /\ ~dynamicConfig
    /\ loops = {"configOK"}
    /\ loopPc["configOK"] = "running"

\* the assigned-resolve step succeeded
AssignedResolved ==
    /\ dynamicConfig
    /\ LocalValid
    /\ CurrentWasRead
    /\ store0.current # Nil => GoodCheckpoint(store0.current)

\* the trial check or the graduation failed: CurrentModified, the second
\* Current or SetLastKnownGood returned an error
GraduationFailed ==
    \/ Has("CurrentModified", FALSE)
    \/ \E i \in DOMAIN calls : i > 2 /\ calls[i] = Call("Current", FALSE)
    \/ Has("SetLastKnownGood", FALSE)

\* C11: graduation is best-effort. When the assigned config resolved and the
\* trial check or the graduation fails, Bootstrap still returns the assigned
\* configuration without error and with an ok condition, and last-known-good
\* keeps its value.
C11_GraduationBestEffort ==
    (AssignedResolved /\ GraduationFailed) =>
        /\ checkpointStore.lastKnownGood = store0.lastKnownGood
        /\ pc \in {"returnAssigned", "done"}
        /\ ret.returned =>
              /\ ret = Return(AssignedConfig, NoErr)
              /\ configOK.status = ConditionTrue

C11_Witness ==
    /\ AssignedResolved
    /\ \E i \in DOMAIN calls : i > 2 /\ calls[i] = Call("Current", FALSE)
    /\ store0.lastKnownGood # Nil
    /\ store0.current # Nil
    /\ ret.returned
    /\ ret.err = NoErr

\* C12: resolver failure classification. For a current pointer with UID u
\* whose checkpoint is bad, the resolver stops at the first failing stage in
\* the order load, parse, validate and returns no configuration, the source
\* record u, an error, and the reason of that stage formatted with u.
C12_FailureClassification ==
    (CurrentWasRead /\ store0.current # Nil /\ ~GoodCheckpoint(store0.current)) =>
        LET u == store0.current
            cp == store0.checkpoints[u]
        IN  /\ assigned = NoConfig
            /\ curSource = u
            /\ reason = FailureReason(u)
            /\ err = IF ~cp.loadable THEN <<"Load">>
                     ELSE IF ~cp.parsable THEN <<"Parse">>
                     ELSE <<"Validate">>
            /\ calls[3] = Call("Load", cp.loadable)
            /\ validated \cap ConfigsOf(u) = {}

C12_Witness ==
    /\ CurrentWasRead
    /\ store0.current # Nil
    /\ store0.checkpoints[store0.current].loadable
    /\ ~store0.checkpoints[store0.current].parsable
    /\ reason = <<"CurFailParseReasonFmt", store0.current>>
    /\ err # NoErr

\* the pointers and blobs of a store, without its initialized flag
Contents(st) == <<st.current, st.currentModified, st.lastKnownGood, st.checkpoints>>

\* C15: pointer write ownership. Bootstrap never writes current, its
\* timestamp or a checkpoint; last-known-good changes only by the graduation
\* write on the successful assigned path once the trial is over; on the
\* fallback and error paths the store contents are unchanged; and resolving
\* the pointers again against the store gives the results Bootstrap recorded.
C15_PointerWriteOwnership ==
    /\ checkpointStore.current = store0.current
    /\ checkpointStore.currentModified = store0.currentModified
    /\ checkpointStore.checkpoints = store0.checkpoints
    /\ (Has("SetLastKnownGood", TRUE) \/ Has("SetLastKnownGood", FALSE)
        \/ checkpointStore.lastKnownGood # store0.lastKnownGood) =>
          /\ AssignedResolved
          /\ Has("CurrentModified", TRUE)
          /\ now - store0.currentModified > AssignedConfig.trial
    /\ checkpointStore.lastKnownGood # store0.lastKnownGood =>
          checkpointStore.lastKnownGood = store0.current
    /\ (AssignedFails \/ ret.err # NoErr) => Contents(checkpointStore) = Contents(store0)
    /\ CurrentWasRead =>
          LET r == loadAssignedConfig(local, TRUE)
          IN  <<r.config, r.src, r.reason, r.err>> = <<assigned, curSource, reason, err>>
    /\ Has("LastKnownGood", TRUE) =>
          LET r == loadLastKnownGoodConfig(local, TRUE)
          IN  /\ <<r.config, r.src>> = <<lkg, lkgSource>>
              /\ ret.returned => r.err = ret.err

C15_Witness ==
    /\ ret.returned
    /\ Has("SetLastKnownGood", TRUE)
    /\ store0.current # Nil
    /\ store0.lastKnownGood # Nil
    /\ store0.lastKnownGood # store0.current
    /\ checkpointStore.lastKnownGood = store0.current
    /\ checkpointStore.current = store0.current

\* C16: store initialization ordering. The first store operation of
\* Bootstrap is Initialize, every other one follows a successful Initialize,
\* and when Initialize fails Bootstrap returns an error and no configuration
\* with no pointer accessed and the condition not set.
C16_InitializeFirst ==
    /\ calls # <<>> => calls[1].op = "Initialize"
    /\ Len(calls) >= 2 => (calls[1].ok /\ checkpointStore.initialized)
    /\ \A i \in DOMAIN calls : i > 1 => calls[i].op # "Initialize"
    /\ (calls # <<>> /\ ~calls[1].ok) =>
          /\ pc = "done"
          /\ ret.returned
          /\ ret.err # NoErr
          /\ ret.config = NoConfig
          /\ configOK = NewConfigOKCondition
          /\ Contents(checkpointStore) = Contents(store0)

C16_Witness ==
    /\ calls = <<Call("Initialize", FALSE)>>
    /\ ret.returned
    /\ ret.err # NoErr
    /\ store0.current # Nil

\* C20: when the assigned config resolves, Bootstrap never reads the
\* last-known-good pointer, and its result and condition are determined by
\* the current pointer alone, whatever last-known-good holds.
C20_SuccessIgnoresLkg ==
    AssignedResolved =>
        /\ ~Has("LastKnownGood", TRUE)
        /\ ~Has("LastKnownGood", FALSE)
        /\ pc \notin {"loadLkg", "setLkgStatus"}
        /\ ret.returned =>
              /\ ret = Return(AssignedConfig, NoErr)
              /\ configOK =
                    IF store0.current = Nil
                    THEN Condition(<<"CurLocalMessage">>, <<"CurLocalOkayReason">>, "True")
                    ELSE Condition(<<"CurRemoteMessageFmt", store0.current>>,
                                   <<"CurRemoteOkayReason">>, "True")

C20_Witness ==
    /\ AssignedResolved
    /\ ret.returned
    /\ store0.current # Nil
    /\ store0.lastKnownGood # Nil
    /\ ~GoodCheckpoint(store0.lastKnownGood)
    /\ ret.config = AssignedConfig

\* ---- the sync loops

\* a step of the config source loop that consumes the pending signal
ConsumeStep ==
    /\ loopPc["syncConfigSource"] = "running"
    /\ loopPc'["syncConfigSource"] = "syncing"

\* a step of the config source loop that finds no pending signal
EmptyStep ==
    /\ loopPc["syncConfigSource"] = "running"
    /\ loopPc'["syncConfigSource"] = "waiting"

\* a step of the config source loop that attempts a sync
AttemptStep ==
    /\ loopPc["syncConfigSource"] = "syncing"
    /\ loopPc'["syncConfigSource"] = "waiting"

Attempted == lastSync \in {"attemptOk", "attemptFailed"}

\* C13: at-most-once processing. The config source loop attempts a sync only
\* in an iteration that found the pending signal set and consumed it; the
\* signal is empty right after the consume; an iteration that finds it empty
\* attempts nothing and changes no store content; after an attempt the next
\* attempt needs a new consume; once Bootstrap is done the store changes
\* only in an attempt.
C13_AtMostOnce ==
    [][/\ ConsumeStep =>
             /\ pendingConfigSource >= 1
             /\ pendingConfigSource' = 0
             /\ lastSync = "none"
             /\ lastSync' = "consumed"
       /\ EmptyStep =>
             /\ pendingConfigSource = 0
             /\ pendingConfigSource' = 0
             /\ lastSync' = "empty"
             /\ checkpointStore' = checkpointStore
       /\ AttemptStep =>
             /\ lastSync = "consumed"
             /\ Attempted'
       /\ (Attempted' /\ ~Attempted) => AttemptStep
       /\ (Attempted /\ lastSync' # lastSync) => lastSync' = "none"
       /\ (pc = "done" /\ checkpointStore' # checkpointStore) => AttemptStep
      ]_vars

C13_Witness ==
    /\ lastSync = "attemptOk"
    /\ pendingConfigSource = 0
    /\ raises = 0
    /\ checkpointStore.current # store0.current
    /\ loopPc["syncConfigSource"] = "waiting"

\* C14: no lost wakeup. With the config source loop kept scheduled, every
\* raise of the pending signal, a dropped one included, is followed by a
\* consume made after it, and every consume by a sync attempt of the same
\* iteration, unless the process ends in between.
C14_NoLostWakeup ==
    /\ (raises >= 1) ~> (raises = 0 \/ process.exited)
    /\ (dropped >= 1) ~> (dropped = 0 \/ process.exited)
    /\ (lastSync = "consumed") ~> (Attempted \/ process.exited)

C14_Witness ==
    /\ raises = 0
    /\ Attempted
    /\ pendingConfigSource = 0
    /\ ~process.exited
    /\ loopPc["informer"] = "waiting"

\* C17: the periodic loops never stop on an error. While the process runs, a
\* started ConfigOK loop that waits, after a failed sync as well and with
\* dynamic config on or off, runs another sync; likewise the config source
\* loop after a failed attempt.
C17_LoopsNeverStop ==
    /\ (loopPc["configOK"] = "waiting" /\ lastPublish = "failed")
          ~> (loopPc["configOK"] = "running" \/ process.exited)
    /\ (loopPc["configOK"] = "waiting" /\ ~dynamicConfig)
          ~> (loopPc["configOK"] = "running" \/ process.exited)
    /\ (loopPc["syncConfigSource"] = "waiting" /\ lastSync = "attemptFailed")
          ~> (loopPc["syncConfigSource"] = "running" \/ process.exited)

C17_Witness ==
    /\ lastPublish = "failed"
    /\ loopPc["configOK"] = "running"
    /\ ~dynamicConfig
    /\ ~process.exited

\* C18: crash policy. A panic in any of the three loops is handed to the
\* panic handlers and ends the process: whenever a loop has panicked the
\* handlers were called, the process has exited and no step of any loop is
\* possible; the process exits for no other reason.
C18_PanicEndsProcess ==
    /\ process.exited <=> process.panicked # Nil
    /\ \A l \in LoopNames : loopPc[l] = "panicked" <=> process.panicked = l
    /\ process.panicked # Nil =>
          /\ process.panicked \in loops
          /\ process.handlersCalled
          /\ ~ENABLED SyncNext

C18_Witness ==
    /\ process.panicked = "informer"
    /\ process.handlersCalled
    /\ process.exited
    /\ loopPc["configOK"] = "running"
    /\ loopPc["syncConfigSource"] = "syncing"

\* C19: graduation promotes only what was validated. When Bootstrap has set
\* last-known-good, its value is the source loadAssignedConfig resolved, the
\* configuration of that source was validated, and it is the configuration
\* Bootstrap returns, without error; the sync loop rewrites the current
\* pointer only after Bootstrap is done.
C19_GraduatesValidated ==
    /\ Has("SetLastKnownGood", TRUE) =>
          /\ checkpointStore.lastKnownGood = curSource
          /\ assigned \in validated
          /\ curSource # Nil => assigned = checkpointStore.checkpoints[curSource].config
          /\ curSource = Nil => assigned = local
          /\ ret.returned => ret = Return(assigned, NoErr)
    /\ pc # "done" => checkpointStore.current = store0.current

C19_Witness ==
    /\ Has("SetLastKnownGood", TRUE)
    /\ curSource # Nil
    /\ ret.returned
    /\ checkpointStore.lastKnownGood = curSource
    /\ checkpointStore.current # curSource
    /\ lastSync = "attemptOk"

====
